---- MODULE Spec2Model ----
(***************************************************************************)
(* Model of the Slider component (src/components/Slider.tsx, lines 1-367): *)
(* the value mapper (percentToValue, getPositionFromEvent), the drag       *)
(* session (startDragging, handleMoveRef.current, handleEndRef.current,    *)
(* the unmount cleanup), the track tap and the keyboard handler.           *)
(*                                                                         *)
(* Numbers are integers.  A percentage returned by getPositionFromEvent is *)
(* kept as the numerator P of the exact fraction P / TrackWidth of the     *)
(* track (percent = 100 * P / TrackWidth), so no rounding is introduced by *)
(* the model that the code does not perform.                               *)
(***************************************************************************)
EXTENDS Integers, Sequences, FiniteSets, TLC

\* ---------------------------------------------------------------- bounds
\* Width of the track in pixels (rect.width); rect.left is 0.
TrackWidth == 3
\* Values the caller may supply for value / rangeValue[i]: 0..MaxVal.
MaxVal == 3

\* ------------------------------------------------------- input domains
Mins == {0, 1}
Maxs == {MaxVal - 2, MaxVal - 1}
Steps == {1, 2}
Vals == 0 .. MaxVal
\* clientX of a pointer event: one pixel outside the track on both sides.
ClientXs == -1 .. (TrackWidth + 1)
ChangeCbs == {"undef", "oc1", "oc2"}
RangeCbs == {"undef", "orc1", "orc2"}
Keys == {"ArrowRight", "ArrowUp", "ArrowLeft", "ArrowDown", "Home"}
MoveTypes == {"mousemove", "touchmove"}
EndTypes == {"mouseup", "touchend", "touchcancel"}
EventTypes == MoveTypes \cup EndTypes

VARIABLES
  type,        \* 'single' | 'range', fixed for the instance
  props,       \* the props of the latest render
  propsRef,    \* propsRef.current
  draggingRef, \* draggingRef.current: "None" | "left" | "right" | "single"
  listeners,   \* event types with a listener of this slider on document
  phase,       \* "mounted" | "detached" (committed unmount, effect cleanup
               \* pending) | "unmounted" (effect cleanup has run)
  lastOp,      \* the event handled by the last step
  emitted,     \* the onChange / onRangeChange call made by the last step
  mapIn,       \* the arguments of a call of the value mapper on its own
  mapOut,      \* the result of that call
  ctlProps,    \* a Toggle or Checkbox: the props of its latest render
  ctlOp,       \* the event it handled in the last step
  ctlCall      \* the onChange call made by the last step

sliderVars == <<type, props, propsRef, draggingRef, listeners, phase, lastOp, emitted>>
\* The variables no operation of the slider touches.
ctlVars == <<ctlProps, ctlOp, ctlCall>>
otherVars == <<mapIn, mapOut, ctlVars>>
vars == <<sliderVars, otherVars>>

\* ------------------------------------------------------------- helpers
Min(a, b) == IF a <= b THEN a ELSE b
Max(a, b) == IF a >= b THEN a ELSE b
Abs(a) == IF a < 0 THEN 0 - a ELSE a

\* Rounding to the nearest integer with halves away from zero.
MathRoundHalfAwayFromZero(num, den) ==
  IF num >= 0 THEN (2 * num + den) \div (2 * den)
  ELSE 0 - ((2 * (0 - num) + den) \div (2 * den))

\* Math.round(num / den) for den > 0: floor(x + 0.5).
MathRound(num, den) == (2 * num + den) \div (2 * den)

NoCall == [cb |-> "none", arg |-> <<>>]
\* cb?.(arg): nothing is called when the callback is undefined.
Call(cb, arg) == IF cb = "undef" THEN NoCall ELSE [cb |-> cb, arg |-> arg]

\* kind: the event; target: the thumb of a press or key event, "track" or
\* "thumb" for a tap; for a document event "handler" when it ran a registered
\* handler, else "nobody", or "ended" for an end event that found no handler
\* because the end event(s) just before it closed the session.  key: the
\* key of a key event; for a press "afterEnd" when the event before it was an
\* end event that ran the handler, "again" when a session was active, else
\* "first"; for an end event that ran the handler "afterAgain" when the event
\* before it was an "again" press.
Op(kind, target, x, key) == [kind |-> kind, target |-> target, x |-> x, key |-> key]

Handles == IF type = "single" THEN {"single"} ELSE {"left", "right"}

\* ------------------------------------------------------- value mapper
\* The stepped value of percentToValue without its last line's clamp.
percentToValueUnclamped(pr, P) ==
  LET rawNum == P * (pr.max - pr.min) + TrackWidth * pr.min
  IN  MathRound(rawNum, TrackWidth * pr.step) * pr.step

\* percentToValue, with percent = 100 * P / TrackWidth.
percentToValue(pr, P) ==
  LET rawNum == P * (pr.max - pr.min) + TrackWidth * pr.min
      steppedValue == MathRound(rawNum, TrackWidth * pr.step) * pr.step
  IN  Min(pr.max, Max(pr.min, steppedValue))

\* A percentage: NaN, or 100 * P / TrackWidth.
Percent(P) == [nan |-> FALSE, P |-> P]
NaNPercent == [nan |-> TRUE, P |-> 0]

\* getPositionFromEvent for a track whose rect has left 0 and width
\* rectWidth, which is 0 or TrackWidth: 0 when trackRef.current is null;
\* else ((clientX - rect.left) / rect.width) * 100 clamped by
\* Math.min(100, Math.max(0, percent)).  With width 0 the quotient is
\* +Infinity, -Infinity or (0 / 0) NaN, and Math.max / Math.min return NaN
\* for a NaN argument.
positionFromEvent(trackPresent, rectWidth, clientX) ==
  IF ~trackPresent THEN Percent(0)
  ELSE IF rectWidth = 0
    THEN IF clientX = 0 THEN NaNPercent
         ELSE IF clientX > 0 THEN Percent(TrackWidth) ELSE Percent(0)
    ELSE Percent(Min(TrackWidth, Max(0, clientX)))

\* getPositionFromEvent on a measurable track (rect.width = TrackWidth).
getPositionFromEvent(trackPresent, clientX) ==
  positionFromEvent(trackPresent, TrackWidth, clientX).P

\* ---------------------------------------------------- drag session
\* The five registrations of startDragging.  addEventListener ignores a
\* registration whose type, callback and capture flag are already
\* registered, and the callbacks are the stable handleMoveRef.current /
\* handleEndRef.current, so the registrations form a set of event types.
StartAddedMouseOnly == {"mousemove", "mouseup"}
StartAdded == {"mousemove", "mouseup", "touchmove", "touchend", "touchcancel"}
\* The removeEventListener calls of handleEndRef.current.
EndRemovedOfLastPress == {"mousemove", "mouseup"}
EndRemovedPartial == {"mousemove", "mouseup", "touchmove", "touchend"}
EndRemoved == {"mousemove", "mouseup", "touchmove", "touchend", "touchcancel"}
\* draggingRef.current after `draggingRef.current = null` in
\* handleEndRef.current.
endedDraggingKept(drag) == drag
endedDragging(drag) == "None"

\* The removeEventListener calls of the unmount cleanup.
CleanupRemovedPartial == {"mousemove", "mouseup", "touchmove", "touchend"}
CleanupRemoved == {"mousemove", "mouseup", "touchmove", "touchend", "touchcancel"}

\* startDragging: `if (propsRef.current.disabled) return;`
startAllowedAlways(pr) == TRUE
startAllowed(pr) == ~pr.disabled

\* handleMoveRef.current: `if (dis) return; if (!draggingRef.current) return;`
moveProceedsIgnoringDisabled(pr, drag) == drag # "None"
moveProceeds(pr, drag) == ~pr.disabled /\ drag # "None"

\* Math.min(newValue, currentRange[1] - st)
newLeftNoGap(newValue, currentRange, st) == Min(newValue, currentRange[2])
newLeft(newValue, currentRange, st) == Min(newValue, currentRange[2] - st)
\* Math.max(newValue, currentRange[0] + st)
newRightNoGap(newValue, currentRange, st) == Max(newValue, currentRange[1])
newRightUnordered(newValue, currentRange, st) == newValue
newRight(newValue, currentRange, st) == Max(newValue, currentRange[1] + st)

\* handleMoveRef.current reporting the single thumb as a pair.
handleMoveSingleAsPair(pr, drag, trackPresent, clientX) ==
  IF ~moveProceeds(pr, drag) THEN NoCall
  ELSE LET percent == getPositionFromEvent(trackPresent, clientX)
           newValue == percentToValue(pr, percent)
           currentRange == pr.rangeValue
       IN  IF drag = "single" THEN Call(pr.onRangeChange, <<newValue, newValue>>)
           ELSE IF drag = "left"
             THEN Call(pr.onRangeChange,
                       <<newLeft(newValue, currentRange, pr.step), currentRange[2]>>)
             ELSE Call(pr.onRangeChange,
                       <<currentRange[1], newRight(newValue, currentRange, pr.step)>>)

\* The call made by handleMoveRef.current for a move event at clientX.
handleMove(pr, drag, trackPresent, clientX) ==
  IF ~moveProceeds(pr, drag) THEN NoCall
  ELSE LET percent == getPositionFromEvent(trackPresent, clientX)
           newValue == percentToValue(pr, percent)
           currentRange == pr.rangeValue
       IN  IF drag = "single" THEN Call(pr.onChange, <<newValue>>)
           ELSE IF drag = "left"
             THEN Call(pr.onRangeChange,
                       <<newLeft(newValue, currentRange, pr.step), currentRange[2]>>)
             ELSE Call(pr.onRangeChange,
                       <<currentRange[1], newRight(newValue, currentRange, pr.step)>>)

\* `propsRef.current = {...}` of a render with props p; old is the cell's
\* previous content.
renderRefStale(old, p) == old
renderRef(old, p) == p

\* ------------------------------------------------ Toggle and Checkbox
CtlCbs == {"undef", "tc1", "tc2"}
CtlKeys == {"Enter", " ", "Tab"}
\* Toggle.tsx and Checkbox defaults: checked = false, disabled = false.
InitCtlProps ==
  [component |-> "Toggle", checked |-> FALSE, disabled |-> FALSE, onChange |-> "tc1"]
NoCtlCall == [cb |-> "none", arg |-> FALSE]
CtlOp(kind, key) == [kind |-> kind, key |-> key]

\* Toggle handleClick: `if (!disabled && onChange) onChange(!checked);`
toggleHandleClickIgnoringDisabled(p) ==
  IF p.onChange # "undef" THEN [cb |-> p.onChange, arg |-> ~p.checked] ELSE NoCtlCall
toggleHandleClick(p) ==
  IF ~p.disabled /\ p.onChange # "undef"
    THEN [cb |-> p.onChange, arg |-> ~p.checked]
    ELSE NoCtlCall
\* Toggle handleKeyDown: Enter and Space go to handleClick.
toggleHandleKeyDown(p, key) ==
  IF key = "Enter" \/ key = " " THEN toggleHandleClick(p) ELSE NoCtlCall

\* Checkbox handleClick.
checkboxHandleClick(p) ==
  IF ~p.disabled /\ p.onChange # "undef"
    THEN [cb |-> p.onChange, arg |-> ~p.checked]
    ELSE NoCtlCall
\* Checkbox handleKeyDown.
checkboxHandleKeyDown(p, key) ==
  IF key = "Enter" \/ key = " " THEN checkboxHandleClick(p) ELSE NoCtlCall

\* Arguments of the value mapper: a range with min < max and step > 0, a
\* percentage 100 * P / TrackWidth, and the track and pointer of an event.
MapMins == -2 .. 1
MapMaxs == -1 .. MaxVal
MapSteps == 1 .. 3
MapInputs ==
  {i \in [min : MapMins, max : MapMaxs, step : MapSteps, P : 0 .. TrackWidth,
          trackPresent : BOOLEAN, rectWidth : {0, TrackWidth},
          clientX : ClientXs] : i.min < i.max}
NoMapIn ==
  [min |-> 0, max |-> 1, step |-> 1, P |-> 0,
   trackPresent |-> TRUE, rectWidth |-> TrackWidth, clientX |-> 0]
NoMapOut == [op |-> "none", value |-> 0, percent |-> Percent(0)]

PropsOK(p) ==
  /\ p.min \in Mins /\ p.max \in Maxs /\ p.step \in Steps
  /\ p.value \in Vals
  /\ p.rangeValue \in Vals \X Vals
  /\ p.disabled \in BOOLEAN
  /\ p.onChange \in ChangeCbs /\ p.onRangeChange \in RangeCbs

InitProps ==
  [min |-> 0, max |-> MaxVal - 1, step |-> 1, value |-> 1,
   rangeValue |-> <<0, 2>>, disabled |-> FALSE,
   onChange |-> "oc1", onRangeChange |-> "orc1"]

Init ==
  /\ type \in {"single", "range"}
  /\ props = InitProps
  /\ propsRef = renderRef(InitProps, InitProps)
  /\ draggingRef = "None"
  /\ listeners = {}
  /\ phase = "mounted"
  /\ lastOp = Op("init", "None", 0, "")
  /\ emitted = NoCall
  /\ mapIn = NoMapIn
  /\ mapOut = NoMapOut
  /\ ctlProps = InitCtlProps
  /\ ctlOp = CtlOp("init", "")
  /\ ctlCall = NoCtlCall

\* ---------------------------------------------------------- actions
\* The caller renders the slider again with one prop changed.  The props
\* of the unused mode (value in range mode, rangeValue and onRangeChange
\* in single mode) keep their initial content.
Rerender ==
  /\ phase = "mounted"
  /\ \E p \in
        {[props EXCEPT !.min = v] : v \in Mins}
        \cup {[props EXCEPT !.max = v] : v \in Maxs}
        \cup {[props EXCEPT !.step = v] : v \in Steps}
        \cup {[props EXCEPT !.disabled = v] : v \in BOOLEAN}
        \cup (IF type = "single"
              THEN {[props EXCEPT !.value = v] : v \in Vals}
                   \cup {[props EXCEPT !.onChange = v] : v \in ChangeCbs}
              ELSE {[props EXCEPT !.rangeValue[1] = v] : v \in Vals}
                   \cup {[props EXCEPT !.rangeValue[2] = v] : v \in Vals}
                   \cup {[props EXCEPT !.onRangeChange = v] : v \in RangeCbs}) :
        /\ p # props
        /\ props' = p
        /\ propsRef' = renderRef(propsRef, p)
  /\ lastOp' = Op("render", "None", 0, "")
  /\ emitted' = NoCall
  /\ UNCHANGED <<type, draggingRef, listeners, phase>>
  /\ UNCHANGED otherVars

\* The caller's callback stores the value it was just given and renders the
\* slider with it (a controlled component).
CallerApply ==
  /\ phase = "mounted"
  /\ emitted.cb # "none"
  /\ \A i \in 1 .. Len(emitted.arg) : emitted.arg[i] \in Vals
  /\ props' = IF Len(emitted.arg) = 1
                THEN [props EXCEPT !.value = emitted.arg[1]]
                ELSE [props EXCEPT !.rangeValue = emitted.arg]
  /\ propsRef' = renderRef(propsRef, props')
  /\ lastOp' = Op("apply", "None", 0, "")
  /\ emitted' = NoCall
  /\ UNCHANGED <<type, draggingRef, listeners, phase>>
  /\ UNCHANGED otherVars

\* onMouseDown / onTouchStart of a thumb: startDragging(h), then the render
\* forceUpdate() asks for.
Press(h) ==
  /\ phase = "mounted"
  /\ h \in Handles
  /\ IF startAllowed(propsRef)
       THEN /\ draggingRef' = h
            /\ listeners' = listeners \cup StartAdded
            /\ propsRef' = renderRef(propsRef, props)
       ELSE UNCHANGED <<draggingRef, listeners, propsRef>>
  /\ lastOp' = Op("press", h, 0,
                  IF draggingRef # "None" THEN "again"
                  ELSE IF lastOp.kind = "end" /\ lastOp.target = "handler"
                    THEN "afterEnd" ELSE "first")
  /\ emitted' = NoCall
  /\ UNCHANGED <<type, props, phase>>
  /\ UNCHANGED otherVars

\* A move event that is taken as a move of the single thumb when no handler
\* is registered for it.
DocMoveWithoutSession(t, clientX) ==
  /\ t \in MoveTypes
  /\ emitted' = IF t \in listeners
                  THEN handleMove(propsRef, draggingRef, phase = "mounted", clientX)
                  ELSE Call(propsRef.onChange,
                            <<percentToValue(propsRef,
                                             getPositionFromEvent(phase = "mounted", clientX))>>)
  /\ lastOp' = Op("move", IF t \in listeners THEN "handler" ELSE "nobody", clientX, "")
  /\ UNCHANGED <<type, props, propsRef, draggingRef, listeners, phase>>
  /\ UNCHANGED otherVars

\* A mousemove / touchmove on the document.  handleMoveRef.current runs
\* only if it is registered for the event's type.  trackRef.current is
\* null once the unmount is committed.
DocMove(t, clientX) ==
  /\ t \in MoveTypes
  /\ emitted' = IF t \in listeners
                  THEN handleMove(propsRef, draggingRef, phase = "mounted", clientX)
                  ELSE NoCall
  /\ lastOp' = Op("move", IF t \in listeners THEN "handler" ELSE "nobody", clientX, "")
  /\ UNCHANGED <<type, props, propsRef, draggingRef, listeners, phase>>
  /\ UNCHANGED otherVars

\* A mouseup / touchend / touchcancel on the document.  handleEndRef.current
\* runs only if it is registered for the event's type; its forceUpdate()
\* renders a mounted component again.
DocEnd(t) ==
  /\ t \in EndTypes
  /\ IF t \in listeners
       THEN /\ draggingRef' = endedDragging(draggingRef)
            /\ listeners' = listeners \ EndRemoved
            /\ propsRef' = IF phase = "mounted"
                             THEN renderRef(propsRef, props) ELSE propsRef
       ELSE UNCHANGED <<draggingRef, listeners, propsRef>>
  /\ lastOp' = Op("end",
                  IF t \in listeners THEN "handler"
                  ELSE IF lastOp.kind = "end" /\ lastOp.target \in {"handler", "ended"}
                    THEN "ended" ELSE "nobody",
                  0,
                  IF t \in listeners /\ lastOp.kind = "press" /\ lastOp.key = "again"
                    THEN "afterAgain" ELSE "")
  /\ emitted' = NoCall
  /\ UNCHANGED <<type, props, phase>>
  /\ UNCHANGED otherVars

\* The unmount is committed: the DOM nodes and their React handlers are
\* gone and trackRef.current is null; the effect cleanup has not run yet.
UnmountCommit ==
  /\ phase = "mounted"
  /\ phase' = "detached"
  /\ lastOp' = Op("unmount", "None", 0, "")
  /\ emitted' = NoCall
  /\ UNCHANGED <<type, props, propsRef, draggingRef, listeners>>
  /\ UNCHANGED otherVars

\* The cleanup returned by useEffect(..., []).
UnmountCleanup ==
  /\ phase = "detached"
  /\ phase' = "unmounted"
  /\ listeners' = listeners \ CleanupRemoved
  /\ lastOp' = Op("cleanup", "None", 0, "")
  /\ emitted' = NoCall
  /\ UNCHANGED <<type, props, propsRef, draggingRef>>
  /\ UNCHANGED otherVars

\* ------------------------------------------------ track tap, keyboard
\* `if (leftDist < rightDist)`: the tap goes to the left thumb.
tapPicksLeftOnTie(leftDist, rightDist) == leftDist <= rightDist
tapPicksLeft(leftDist, rightDist) == leftDist < rightDist

\* handleTrackInteraction without its `if (disabled) return;`.
handleTrackInteractionIgnoringDisabled(p, pr, onThumb, clientX) ==
  IF onThumb THEN NoCall
  ELSE LET percent == getPositionFromEvent(TRUE, clientX)
           newValue == percentToValue(pr, percent)
           rangeValue == p.rangeValue
           leftDist == Abs(newValue - rangeValue[1])
           rightDist == Abs(newValue - rangeValue[2])
       IN  IF type = "single" THEN Call(p.onChange, <<newValue>>)
           ELSE IF tapPicksLeft(leftDist, rightDist)
             THEN Call(p.onRangeChange,
                       <<Min(newValue, rangeValue[2] - p.step), rangeValue[2]>>)
             ELSE Call(p.onRangeChange,
                       <<rangeValue[1], Max(newValue, rangeValue[1] + p.step)>>)

\* The call made by handleTrackInteraction of the render with props p for a
\* click / touchend at clientX; onThumb: the event's target has
\* role="slider".  percentToValue reads propsRef.current (pr).
handleTrackInteraction(p, pr, onThumb, clientX) ==
  IF p.disabled THEN NoCall
  ELSE IF onThumb THEN NoCall
  ELSE LET percent == getPositionFromEvent(TRUE, clientX)
           newValue == percentToValue(pr, percent)
           rangeValue == p.rangeValue
           leftDist == Abs(newValue - rangeValue[1])
           rightDist == Abs(newValue - rangeValue[2])
       IN  IF type = "single" THEN Call(p.onChange, <<newValue>>)
           ELSE IF tapPicksLeft(leftDist, rightDist)
             THEN Call(p.onRangeChange,
                       <<Min(newValue, rangeValue[2] - p.step), rangeValue[2]>>)
             ELSE Call(p.onRangeChange,
                       <<rangeValue[1], Max(newValue, rangeValue[1] + p.step)>>)

\* `e.key === 'ArrowRight' || e.key === 'ArrowUp'`
keyStepsUpHorizontalOnly(key) == key = "ArrowRight"
keyStepsUp(key) == key \in {"ArrowRight", "ArrowUp"}
\* `e.key === 'ArrowLeft' || e.key === 'ArrowDown'`
keyStepsDown(key) == key \in {"ArrowLeft", "ArrowDown"}

\* handleKeyDown stepping the low thumb up without regard to the high one.
handleKeyDownNoGap(p, dragType, key) ==
  LET rangeValue == p.rangeValue IN
  IF p.disabled THEN NoCall
  ELSE IF keyStepsUp(key) THEN
    IF dragType = "single" THEN Call(p.onChange, <<Min(p.max, p.value + p.step)>>)
    ELSE IF dragType = "left"
      THEN Call(p.onRangeChange,
                <<Min(p.max, rangeValue[1] + p.step), rangeValue[2]>>)
      ELSE Call(p.onRangeChange,
                <<rangeValue[1], Min(p.max, rangeValue[2] + p.step)>>)
  ELSE IF keyStepsDown(key) THEN
    IF dragType = "single" THEN Call(p.onChange, <<Max(p.min, p.value - p.step)>>)
    ELSE IF dragType = "left"
      THEN Call(p.onRangeChange,
                <<Max(p.min, rangeValue[1] - p.step), rangeValue[2]>>)
      ELSE Call(p.onRangeChange,
                <<rangeValue[1], Max(rangeValue[1] + p.step, rangeValue[2] - p.step)>>)
  ELSE NoCall

\* The call made by handleKeyDown(dragType) of the render with props p.
handleKeyDown(p, dragType, key) ==
  LET rangeValue == p.rangeValue IN
  IF p.disabled THEN NoCall
  ELSE IF keyStepsUp(key) THEN
    IF dragType = "single" THEN Call(p.onChange, <<Min(p.max, p.value + p.step)>>)
    ELSE IF dragType = "left"
      THEN Call(p.onRangeChange,
                <<Min(rangeValue[1] + p.step, rangeValue[2] - p.step), rangeValue[2]>>)
      ELSE Call(p.onRangeChange,
                <<rangeValue[1], Min(p.max, rangeValue[2] + p.step)>>)
  ELSE IF keyStepsDown(key) THEN
    IF dragType = "single" THEN Call(p.onChange, <<Max(p.min, p.value - p.step)>>)
    ELSE IF dragType = "left"
      THEN Call(p.onRangeChange,
                <<Max(p.min, rangeValue[1] - p.step), rangeValue[2]>>)
      ELSE Call(p.onRangeChange,
                <<rangeValue[1], Max(rangeValue[1] + p.step, rangeValue[2] - p.step)>>)
  ELSE NoCall

\* draggingRef.current after handleTrackInteraction, which neither assigns
\* it nor calls startDragging.
draggingAfterTapStarted(drag) == IF type = "single" THEN "single" ELSE "left"
draggingAfterTap(drag) == drag

\* onClick / onTouchEnd of the track element.
Tap(onThumb, clientX) ==
  /\ phase = "mounted"
  /\ emitted' = handleTrackInteraction(props, propsRef, onThumb, clientX)
  /\ draggingRef' = draggingAfterTap(draggingRef)
  /\ lastOp' = Op("tap", IF onThumb THEN "thumb" ELSE "track", clientX, "")
  /\ UNCHANGED <<type, props, propsRef, listeners, phase>>
  /\ UNCHANGED otherVars

\* onKeyDown of a thumb.
KeyDown(h, key) ==
  /\ phase = "mounted"
  /\ h \in Handles
  /\ emitted' = handleKeyDown(props, h, key)
  /\ lastOp' = Op("key", h, 0, key)
  /\ UNCHANGED <<type, props, propsRef, draggingRef, listeners, phase>>
  /\ UNCHANGED otherVars

\* ---------------------------------------------------------- rendering
\* valueToPercent: ((val - mn) / (mx - mn)) * 100, kept as the fraction
\* num / den.
valueToPercentFromZero(pr, val) == [num |-> val * 100, den |-> pr.max - pr.min]
valueToPercent(pr, val) == [num |-> (val - pr.min) * 100, den |-> pr.max - pr.min]

\* The rendered output for props p, the three percentages and isDragging:
\* the cursor, the filled portion of the track, and per thumb its `left`
\* and its aria-valuenow / aria-valuemin / aria-valuemax.
layout(p, singlePercent, leftPercent, rightPercent, isDragging) ==
  [cursor |-> IF p.disabled THEN "not-allowed"
              ELSE IF isDragging THEN "grabbing" ELSE "grab",
   tabIndex |-> IF p.disabled THEN -1 ELSE 0,
   fillLeft |-> IF type = "single" THEN [num |-> 0, den |-> 1] ELSE leftPercent,
   fillWidth |-> IF type = "single" THEN singlePercent
                 ELSE [num |-> rightPercent.num - leftPercent.num,
                       den |-> leftPercent.den],
   thumbs |-> IF type = "single"
     THEN <<[left |-> singlePercent, now |-> p.value,
             min |-> p.min, max |-> p.max]>>
     ELSE <<[left |-> leftPercent, now |-> p.rangeValue[1],
             min |-> p.min, max |-> p.rangeValue[2]],
            [left |-> rightPercent, now |-> p.rangeValue[2],
             min |-> p.rangeValue[1], max |-> p.max]>>]

\* The render of the component with props p, propsRef.current pr and
\* draggingRef.current drag.
renderViewFrozen(p, pr, drag) ==
  IF drag # "None"
    THEN layout(p, valueToPercent(pr, InitProps.value),
                valueToPercent(pr, InitProps.rangeValue[1]),
                valueToPercent(pr, InitProps.rangeValue[2]), TRUE)
    ELSE layout(p, valueToPercent(pr, p.value), valueToPercent(pr, p.rangeValue[1]),
                valueToPercent(pr, p.rangeValue[2]), FALSE)
renderView(p, pr, drag) ==
  layout(p, valueToPercent(pr, p.value), valueToPercent(pr, p.rangeValue[1]),
         valueToPercent(pr, p.rangeValue[2]), drag # "None")

\* ------------------------------------------------------ specification
Next ==
  \/ Rerender
  \/ CallerApply
  \/ \E h \in {"single", "left", "right"} : Press(h)
  \/ \E t \in MoveTypes, x \in ClientXs : DocMove(t, x)
  \/ \E t \in EndTypes : DocEnd(t)
  \/ \E b \in BOOLEAN, x \in ClientXs : Tap(b, x)
  \/ \E h \in {"single", "left", "right"}, k \in Keys : KeyDown(h, k)
  \/ UnmountCommit
  \/ UnmountCleanup

Spec == Init /\ [][Next]_vars

\* ------------------------------------- the value mapper on its own
InitMapper ==
  /\ type = "single"
  /\ props = InitProps
  /\ propsRef = renderRef(InitProps, InitProps)
  /\ draggingRef = "None"
  /\ listeners = {}
  /\ phase = "mounted"
  /\ lastOp = Op("init", "None", 0, "")
  /\ emitted = NoCall
  /\ mapIn \in MapInputs
  /\ mapOut = NoMapOut
  /\ ctlProps = InitCtlProps
  /\ ctlOp = CtlOp("init", "")
  /\ ctlCall = NoCtlCall

\* percentToValue(percent) with propsRef.current holding mapIn's range.
MapPercentToValue ==
  /\ mapOut.op = "none"
  /\ mapOut' = [op |-> "percentToValue",
                value |-> percentToValue(mapIn, mapIn.P),
                percent |-> Percent(mapIn.P)]
  /\ UNCHANGED <<sliderVars, mapIn, ctlVars>>

\* getPositionFromEvent(e) for mapIn's track and pointer.
MapPosition ==
  /\ mapOut.op = "none"
  /\ mapOut' = [op |-> "position", value |-> 0,
                percent |-> positionFromEvent(mapIn.trackPresent, mapIn.rectWidth,
                                              mapIn.clientX)]
  /\ UNCHANGED <<sliderVars, mapIn, ctlVars>>

NextMapper == MapPercentToValue \/ MapPosition

SpecMapper == InitMapper /\ [][NextMapper]_vars

\* --------------------------------- a Toggle or a Checkbox on its own
InitControl ==
  /\ type = "single"
  /\ props = InitProps
  /\ propsRef = renderRef(InitProps, InitProps)
  /\ draggingRef = "None"
  /\ listeners = {}
  /\ phase = "mounted"
  /\ lastOp = Op("init", "None", 0, "")
  /\ emitted = NoCall
  /\ mapIn = NoMapIn
  /\ mapOut = NoMapOut
  /\ ctlProps \in {[InitCtlProps EXCEPT !.component = c] : c \in {"Toggle", "Checkbox"}}
  /\ ctlOp = CtlOp("init", "")
  /\ ctlCall = NoCtlCall

\* The caller renders the component again with one prop changed.
CtlRender ==
  /\ \E p \in {[ctlProps EXCEPT !.checked = v] : v \in BOOLEAN}
              \cup {[ctlProps EXCEPT !.disabled = v] : v \in BOOLEAN}
              \cup {[ctlProps EXCEPT !.onChange = v] : v \in CtlCbs} :
        /\ p # ctlProps
        /\ ctlProps' = p
  /\ ctlOp' = CtlOp("render", "")
  /\ ctlCall' = NoCtlCall
  /\ UNCHANGED <<sliderVars, mapIn, mapOut>>

\* The caller's onChange stores the value it was given and renders again.
CtlApply ==
  /\ ctlCall.cb # "none"
  /\ ctlProps' = [ctlProps EXCEPT !.checked = ctlCall.arg]
  /\ ctlOp' = CtlOp("apply", "")
  /\ ctlCall' = NoCtlCall
  /\ UNCHANGED <<sliderVars, mapIn, mapOut>>

\* onClick of the button.
CtlClick ==
  /\ ctlCall' = IF ctlProps.component = "Toggle"
                  THEN toggleHandleClick(ctlProps)
                  ELSE checkboxHandleClick(ctlProps)
  /\ ctlOp' = CtlOp("click", "")
  /\ UNCHANGED <<sliderVars, mapIn, mapOut, ctlProps>>

\* onKeyDown of the button.
CtlKeyDown(key) ==
  /\ ctlCall' = IF ctlProps.component = "Toggle"
                  THEN toggleHandleKeyDown(ctlProps, key)
                  ELSE checkboxHandleKeyDown(ctlProps, key)
  /\ ctlOp' = CtlOp("key", key)
  /\ UNCHANGED <<sliderVars, mapIn, mapOut, ctlProps>>

NextControl ==
  \/ CtlRender
  \/ CtlApply
  \/ CtlClick
  \/ \E k \in CtlKeys : CtlKeyDown(k)

SpecControl == InitControl /\ [][NextControl]_vars

TypeOK ==
  /\ type \in {"single", "range"}
  /\ PropsOK(props)
  /\ propsRef = props
  /\ draggingRef \in {"None"} \cup Handles
  /\ listeners \subseteq EventTypes
  /\ phase \in {"mounted", "detached", "unmounted"}

\* ------------------------------------------------------------ claims
SessionActive == draggingRef # "None"
Notified == emitted.cb # "none"
MoveHandled == lastOp.kind = "move" /\ lastOp.target = "handler"

\* C1: every pair a drag move on the left or right thumb emits has
\* low <= high - step.
C1_DragKeepsSeparation ==
  (MoveHandled /\ draggingRef \in {"left", "right"} /\ Notified)
    => emitted.arg[1] <= emitted.arg[2] - props.step

\* A drag of the left thumb from a separated pair towards the right thumb
\* was stopped one step below it.
C1_Witness ==
  /\ MoveHandled /\ draggingRef = "left" /\ Notified
  /\ props.rangeValue[1] <= props.rangeValue[2] - props.step
  /\ emitted.arg[1] > props.rangeValue[1]
  /\ emitted.arg = <<props.rangeValue[2] - props.step, props.rangeValue[2]>>
  /\ percentToValue(props, getPositionFromEvent(TRUE, lastOp.x)) > emitted.arg[1]

\* C2: two consecutive move events of a session that resolve to the same
\* candidate produce at most one notification: a move never repeats the
\* notification of the move just before it.
C2_NoRepeatedNotification ==
  [][~(/\ MoveHandled /\ Notified
       /\ lastOp'.kind = "move"
       /\ emitted' = emitted)]_vars

\* C3: after an end / cancel event was handled, and after the teardown of
\* the component has run, no listener of the slider is left on the document.
C3_ListenersReleased ==
  /\ (lastOp.kind = "end" /\ lastOp.target = "handler") => listeners = {}
  /\ phase = "unmounted" => listeners = {}

\* The component was torn down in the middle of a session.
C3_Witness ==
  /\ phase = "unmounted" /\ SessionActive /\ listeners = {}

\* C4: a move event handled after the component was unmounted during a
\* session calls neither onChange nor onRangeChange.
C4_MoveAfterUnmountIsSilent ==
  (lastOp.kind = "move" /\ phase # "mounted") => ~Notified

\* C5: an end / cancel event that follows the end event of a session changes
\* nothing: the slider is Idle with no listener before and after it, and no
\* notification is made.
C5_SecondEndChangesNothing ==
  [][(/\ lastOp.kind = "end" /\ lastOp.target \in {"handler", "ended"}
      /\ lastOp'.kind = "end")
     => /\ draggingRef = "None" /\ listeners = {}
        /\ draggingRef' = "None" /\ listeners' = {}
        /\ <<type, props, propsRef, phase>>' = <<type, props, propsRef, phase>>
        /\ emitted = NoCall /\ emitted' = NoCall]_vars

\* A second end event arrived right after the one that closed a session.
C5_Witness ==
  /\ lastOp.kind = "end" /\ lastOp.target = "ended"
  /\ draggingRef = "None" /\ listeners = {} /\ ~Notified

\* C6: a handle press during a session leaves the active handle and the
\* registered listeners as they are.
C6_SecondPressIgnored ==
  [][(lastOp'.kind = "press" /\ SessionActive)
     => (draggingRef' = draggingRef /\ listeners' = listeners)]_vars

\* C7: a handle press on a disabled, idle slider starts no session: the
\* active handle stays None and no listener is registered.
C7_DisabledPressStartsNothing ==
  [][(/\ lastOp'.kind = "press" /\ props.disabled
      /\ draggingRef = "None" /\ listeners = {})
     => (draggingRef' = "None" /\ listeners' = {})]_vars

\* A thumb of a disabled, idle slider was pressed.
C7_Witness ==
  /\ lastOp.kind = "press" /\ props.disabled
  /\ draggingRef = "None" /\ listeners = {}

\* C8: during a session of a mounted slider, a move while disabled makes no
\* notification and keeps the session and its listeners; an end event
\* closes the session and removes the listeners also while disabled; a move
\* while not disabled calls the callback the caller supplied.
C8_DisabledMidSession ==
  [][(SessionActive /\ phase = "mounted") =>
       /\ (lastOp'.kind = "move" /\ props.disabled)
            => /\ emitted' = NoCall
               /\ draggingRef' = draggingRef /\ listeners' = listeners
       /\ (lastOp'.kind = "end" /\ props.disabled)
            => (draggingRef' = "None" /\ listeners' = {})
       /\ (/\ lastOp'.kind = "move" /\ ~props.disabled
           /\ (IF draggingRef = "single" THEN props.onChange
                                         ELSE props.onRangeChange) # "undef")
            => emitted'.cb # "none"]_vars

\* A move reached the handler of a session during which the slider had
\* become disabled, and was ignored.
C8_Witness ==
  /\ MoveHandled /\ props.disabled /\ SessionActive /\ phase = "mounted"
  /\ ~Notified /\ listeners = StartAdded

\* C9: the move handler works on the props of the latest render: the call
\* it makes is the one computed from those props, to the callback of those
\* props, and a render during a session leaves the listeners registered at
\* its start as they are.
C9_HandlersSeeLatestProps ==
  /\ propsRef = props
  /\ MoveHandled
       => emitted = handleMove(props, draggingRef, phase = "mounted", lastOp.x)
  /\ (lastOp.kind = "render" /\ SessionActive) => listeners = StartAdded

\* A move of a session called a callback and used a step that only a later
\* render can have supplied.
C9_Witness ==
  /\ MoveHandled /\ SessionActive /\ phase = "mounted"
  /\ emitted.cb \in {"oc2", "orc2"}
  /\ props.step # InitProps.step /\ props.min # InitProps.min
  /\ listeners = StartAdded

\* The value a tap at lastOp.x resolves to.
TapValue == percentToValue(props, getPositionFromEvent(TRUE, lastOp.x))
TapLeftDist == Abs(TapValue - props.rangeValue[1])
TapRightDist == Abs(TapValue - props.rangeValue[2])
RangeTapNotified ==
  /\ lastOp.kind = "tap" /\ lastOp.target = "track"
  /\ type = "range" /\ Notified

\* C10 as stated: a range tap gives the resolved value to the nearer thumb,
\* to the low thumb when both are equally near, and emits the other thumb's
\* value unchanged.
C10_TapNearestTieLow ==
  RangeTapNotified =>
    emitted.arg = IF TapLeftDist <= TapRightDist
                    THEN <<TapValue, props.rangeValue[2]>>
                    ELSE <<props.rangeValue[1], TapValue>>

\* C10 (amended): a range tap updates the low thumb when the resolved value
\* is strictly nearer to low and the high thumb otherwise (also when both
\* are equally near); the low thumb gets min(resolved, high - step), the
\* high thumb max(resolved, low + step), and the other thumb's value is
\* emitted unchanged.
C10_TapNearestTieHigh ==
  RangeTapNotified =>
    emitted.arg = IF TapLeftDist < TapRightDist
                    THEN <<Min(TapValue, props.rangeValue[2] - props.step),
                           props.rangeValue[2]>>
                    ELSE <<props.rangeValue[1],
                           Max(TapValue, props.rangeValue[1] + props.step)>>

\* A tap resolved to a value equally distant from both thumbs and moved the
\* high thumb to it.
C10_Witness ==
  /\ RangeTapNotified
  /\ TapLeftDist = TapRightDist /\ TapLeftDist > 0
  /\ emitted.arg = <<props.rangeValue[1], TapValue>>

\* C11 as stated: a value of percentToValue lies in [min, max] and differs
\* from min by a multiple of step.
C11_SteppedFromMin ==
  mapOut.op = "percentToValue" =>
    /\ mapIn.min <= mapOut.value /\ mapOut.value <= mapIn.max
    /\ (mapOut.value - mapIn.min) % mapIn.step = 0

\* C11 (amended): a value of percentToValue lies in [min, max] and is a
\* multiple of step, or is min or max itself; it differs from min by a
\* multiple of step when min and max are multiples of step.
C11_SteppedFromZero ==
  mapOut.op = "percentToValue" =>
    /\ mapIn.min <= mapOut.value /\ mapOut.value <= mapIn.max
    /\ \/ mapOut.value % mapIn.step = 0
       \/ mapOut.value \in {mapIn.min, mapIn.max}
    /\ (mapIn.min % mapIn.step = 0 /\ mapIn.max % mapIn.step = 0)
         => (mapOut.value - mapIn.min) % mapIn.step = 0

\* A value inside the range that is a multiple of step but not a multiple
\* of step away from min.
C11_Witness ==
  /\ mapOut.op = "percentToValue"
  /\ mapIn.min < mapOut.value /\ mapOut.value < mapIn.max
  /\ mapOut.value % mapIn.step = 0
  /\ (mapOut.value - mapIn.min) % mapIn.step # 0

\* C12: getPositionFromEvent returns 0 when the track element is absent and
\* when its measured width is zero.
C12_UnmeasurableTrackGivesZero ==
  (mapOut.op = "position" /\ (~mapIn.trackPresent \/ mapIn.rectWidth = 0))
    => mapOut.percent = Percent(0)

\* The last step was a drag move, a track tap or a key press that called
\* onChange / onRangeChange.
ValueEmitted ==
  /\ Notified
  /\ \/ MoveHandled
     \/ lastOp.kind = "tap"
     \/ lastOp.kind = "key"
EmittedInRange ==
  \A i \in 1 .. Len(emitted.arg) :
    props.min <= emitted.arg[i] /\ emitted.arg[i] <= props.max
\* The value of the mode in use lies in [min, max] (low <= high for a pair).
SuppliedInRange ==
  IF type = "single"
    THEN props.min <= props.value /\ props.value <= props.max
    ELSE /\ props.min <= props.rangeValue[1]
         /\ props.rangeValue[1] <= props.rangeValue[2]
         /\ props.rangeValue[2] <= props.max

\* C13: with a range min < max and step <= max - min, every value a drag
\* move, a track tap or a key press emits lies in [min, max], whatever value
\* or rangeValue the caller has supplied.
C13_TotalClamping ==
  (ValueEmitted /\ props.min < props.max /\ props.step <= props.max - props.min)
    => EmittedInRange

\* C14: with min < max, max - min < step and the supplied value(s) inside
\* [min, max], every value a drag move, a track tap or a key press emits
\* lies in [min, max].
C14_StepWiderThanRange ==
  (/\ ValueEmitted
   /\ props.min < props.max /\ props.max - props.min < props.step
   /\ SuppliedInRange)
    => EmittedInRange

\* The pair supplied by the caller is ordered, inside [min, max] and
\* separated by a step, and the step fits the range.
SeparatedPair ==
  /\ props.step <= props.max - props.min
  /\ props.min <= props.rangeValue[1]
  /\ props.rangeValue[1] <= props.rangeValue[2] - props.step
  /\ props.rangeValue[2] <= props.max

\* C15: a drag move made from a pair with min <= low <= high - step and
\* high <= max, with step <= max - min, emits a pair with low <= high and
\* both values in [min, max]; so when the caller starts from such a pair and
\* applies every emitted pair, every pair the drags emit is one.
C15_DragKeepsOrderAndRange ==
  (MoveHandled /\ draggingRef \in {"left", "right"} /\ Notified /\ SeparatedPair)
    => /\ emitted.arg[1] <= emitted.arg[2]
       /\ EmittedInRange

\* A drag of the right thumb below the left one was stopped a step above it.
C15_Witness ==
  /\ MoveHandled /\ draggingRef = "right" /\ Notified /\ SeparatedPair
  /\ phase = "mounted"
  /\ percentToValue(props, getPositionFromEvent(TRUE, lastOp.x)) < props.rangeValue[1]
  /\ emitted.arg = <<props.rangeValue[1], props.rangeValue[1] + props.step>>

ArrowKeys == {"ArrowRight", "ArrowUp", "ArrowLeft", "ArrowDown"}

\* C16: an arrow key on a thumb of an enabled slider calls the callback of
\* the thumb's mode once, with one value for the single thumb and a pair for
\* a range thumb, and leaves the active handle and the registered listeners
\* as they are.
C16_KeyStepSingleShot ==
  [][(lastOp'.kind = "key" /\ lastOp'.key \in ArrowKeys /\ ~props.disabled)
     => /\ draggingRef' = draggingRef
        /\ listeners' = listeners
        /\ (type = "single" /\ props.onChange # "undef")
             => (emitted'.cb = props.onChange /\ Len(emitted'.arg) = 1)
        /\ (type = "range" /\ props.onRangeChange # "undef")
             => (emitted'.cb = props.onRangeChange /\ Len(emitted'.arg) = 2)]_vars

\* ArrowUp on a thumb of an idle slider made a notification and no session.
C16_Witness ==
  /\ lastOp.kind = "key" /\ lastOp.key = "ArrowUp" /\ Notified
  /\ draggingRef = "None" /\ listeners = {}

\* C17: a tap on the track changes neither the active handle nor the
\* registered listeners, and a session starts only by a handle press.
C17_TapStartsNoSession ==
  [][/\ lastOp'.kind = "tap"
          => (draggingRef' = draggingRef /\ listeners' = listeners)
     /\ (draggingRef = "None" /\ draggingRef' # "None")
          => lastOp'.kind = "press"]_vars

\* A tap on the track of an idle slider made a notification and no session.
C17_Witness ==
  /\ lastOp.kind = "tap" /\ lastOp.target = "track" /\ Notified
  /\ draggingRef = "None" /\ listeners = {}

\* What a render exposes of the values: fill, thumb offsets, aria values.
Positions(view) ==
  [fillLeft |-> view.fillLeft, fillWidth |-> view.fillWidth, thumbs |-> view.thumbs]

\* C18: the fill and thumb fractions and the aria value attributes of a
\* render are the same for every session state (and every step, disabled
\* flag) with the same min, max, value and rangeValue.
C18_PositionsIgnoreSession ==
  phase = "mounted" =>
    \A d \in {"None"} \cup Handles, dis \in BOOLEAN, st \in Steps :
      LET q == [props EXCEPT !.disabled = dis, !.step = st]
      IN  Positions(renderView(q, q, d))
            = Positions(renderView(props, propsRef, draggingRef))

\* The caller changed the range values during a drag: the render shows the
\* session in its cursor.
C18_Witness ==
  /\ phase = "mounted" /\ type = "range" /\ SessionActive
  /\ lastOp.kind = "render"
  /\ props.rangeValue # InitProps.rangeValue
  /\ renderView(props, propsRef, draggingRef).cursor = "grabbing"

\* C19: on a mounted slider the move / end listeners are registered exactly
\* while a handle is active.
C19_ListenersIffDragging ==
  phase = "mounted" =>
    /\ SessionActive => listeners = StartAdded
    /\ ~SessionActive => listeners = {}

\* An end event closed the session of a mounted slider.
C19_Witness ==
  /\ phase = "mounted" /\ lastOp.kind = "end" /\ lastOp.target = "handler"
  /\ ~SessionActive /\ listeners = {}

\* C20: a click or an Enter / Space key press on a Toggle or Checkbox calls
\* the supplied onChange once with the negation of the checked prop when
\* disabled is false, and calls nothing when disabled is true; the call
\* follows the checked prop alone, also when the caller did not apply the
\* previous call.
C20_ControlledToggle ==
  (ctlOp.kind = "click" \/ (ctlOp.kind = "key" /\ ctlOp.key \in {"Enter", " "}))
    => ctlCall = IF ~ctlProps.disabled /\ ctlProps.onChange # "undef"
                   THEN [cb |-> ctlProps.onChange, arg |-> ~ctlProps.checked]
                   ELSE NoCtlCall

\* Space on a checked, enabled Checkbox called onChange(false).
C20_Witness ==
  /\ ctlOp = CtlOp("key", " ") /\ ctlProps.component = "Checkbox"
  /\ ctlProps.checked /\ ~ctlProps.disabled
  /\ ctlCall = [cb |-> ctlProps.onChange, arg |-> FALSE]

\* The value a move at lastOp.x resolves to: getPositionFromEvent gives 0
\* once trackRef.current is null.
DragValue == percentToValue(props, getPositionFromEvent(phase = "mounted", lastOp.x))

\* C21: a move on the low handle calls onRangeChange with exactly
\* [min(computedValue, currentHigh - step), currentHigh] and a move on the
\* high handle with exactly [currentLow, max(computedValue, currentLow + step)],
\* computedValue being percentToValue of the pointer's percentage and
\* currentLow / currentHigh the pair of the latest render.
C21_DragCandidateRule ==
  (MoveHandled /\ draggingRef \in {"left", "right"} /\ Notified) =>
    /\ emitted.cb = props.onRangeChange
    /\ emitted.arg =
         IF draggingRef = "left"
           THEN <<Min(DragValue, props.rangeValue[2] - props.step), props.rangeValue[2]>>
           ELSE <<props.rangeValue[1], Max(DragValue, props.rangeValue[1] + props.step)>>

\* A drag moved the low handle to a new value more than a step below the
\* high handle, which was passed through.
C21_Witness ==
  /\ MoveHandled /\ draggingRef = "left" /\ Notified /\ phase = "mounted"
  /\ DragValue < props.rangeValue[2] - props.step
  /\ DragValue # props.rangeValue[1]
  /\ emitted.arg = <<DragValue, props.rangeValue[2]>>

\* x clamped to [lo, hi].
Clamp(x, lo, hi) == Min(hi, Max(lo, x))
KeyStepped == lastOp.kind = "key" /\ lastOp.key \in ArrowKeys /\ Notified
\* +step for ArrowRight / ArrowUp, -step for ArrowLeft / ArrowDown.
KeyDelta == IF lastOp.key \in {"ArrowRight", "ArrowUp"} THEN props.step ELSE 0 - props.step

\* C22: an arrow key on a thumb emits the thumb's current value plus
\* (ArrowRight / ArrowUp) or minus (ArrowLeft / ArrowDown) one step, clamped
\* to [min, max] for the single thumb, to [min, high - step] for the low thumb
\* and to [low + step, max] for the high thumb (where that interval is not
\* empty); the other thumb's value is emitted unchanged.
C22_KeyStepClamped ==
  (KeyStepped /\ props.min < props.max) =>
    IF lastOp.target = "single"
      THEN emitted.arg = <<Clamp(props.value + KeyDelta, props.min, props.max)>>
    ELSE IF lastOp.target = "left"
      THEN props.min <= props.rangeValue[2] - props.step
             => emitted.arg = <<Clamp(props.rangeValue[1] + KeyDelta, props.min,
                                      props.rangeValue[2] - props.step),
                                props.rangeValue[2]>>
      ELSE props.rangeValue[1] + props.step <= props.max
             => emitted.arg = <<props.rangeValue[1],
                                Clamp(props.rangeValue[2] + KeyDelta,
                                      props.rangeValue[1] + props.step, props.max)>>

\* rawValue * TrackWidth for the call in mapIn, and TrackWidth * step.
MapRawNum == mapIn.P * (mapIn.max - mapIn.min) + TrackWidth * mapIn.min
MapStepDen == TrackWidth * mapIn.step
\* Multiples of step around the ranges of MapInputs.
MapMultiples == (0 - (MaxVal + 3)) .. (MaxVal + 3)

\* C23 as stated: percentToValue rounds rawValue / step to the nearest
\* integer with halves away from zero, for negative and positive rawValue.
C23_RoundHalfAwayFromZero ==
  mapOut.op = "percentToValue" =>
    mapOut.value = Clamp(MathRoundHalfAwayFromZero(MapRawNum, MapStepDen) * mapIn.step,
                         mapIn.min, mapIn.max)

\* C23 (amended): percentToValue rounds rawValue / step to the nearest
\* integer k, and a rawValue exactly halfway between two multiples of step
\* resolves to the greater one (halves round up, towards +infinity, for
\* negative and positive rawValue); the result is k * step clamped to
\* [min, max].
C23_RoundHalfUp ==
  mapOut.op = "percentToValue" =>
    \E k \in MapMultiples :
      /\ mapOut.value = Clamp(k * mapIn.step, mapIn.min, mapIn.max)
      /\ 2 * Abs(MapRawNum - k * MapStepDen) <= MapStepDen
      /\ 2 * Abs(MapRawNum - k * MapStepDen) = MapStepDen
           => k * MapStepDen > MapRawNum

\* A negative rawValue halfway between two multiples of step resolved to the
\* one nearer to zero, inside the range.
C23_Witness ==
  /\ mapOut.op = "percentToValue"
  /\ MapRawNum < 0
  /\ 2 * Abs(MapRawNum) % (2 * MapStepDen) = MapStepDen
  /\ mapIn.min < mapOut.value /\ mapOut.value < mapIn.max
  /\ mapOut.value * TrackWidth > MapRawNum
  /\ 2 * (mapOut.value * TrackWidth - MapRawNum) = MapStepDen

\* valueToPercent of the value percentToValue returned, and its distance
\* from the percentage 100 * P / TrackWidth that went in, times
\* TrackWidth * (max - min).
MapRoundTrip == valueToPercent(mapIn, mapOut.value)
MapRoundTripError == Abs(MapRoundTrip.num * TrackWidth - 100 * mapIn.P * MapRoundTrip.den)

\* C24: for every percentage in 0..100 and every range with min < max and
\* step > 0, valueToPercent(percentToValue(percent)) differs from percent by
\* at most 100 * step / (max - min).
C24_RoundTripWithinStep ==
  mapOut.op = "percentToValue" =>
    /\ MapRoundTrip.den = mapIn.max - mapIn.min
    /\ MapRoundTripError <= 100 * mapIn.step * TrackWidth

\* A percentage inside a range with negative min and a step above 1 came
\* back changed by the stepping.
C24_Witness ==
  /\ mapOut.op = "percentToValue"
  /\ mapIn.min < 0 /\ mapIn.step > 1
  /\ 0 < mapIn.P /\ mapIn.P < TrackWidth
  /\ MapRoundTripError > 0
  /\ MapRoundTripError <= 100 * mapIn.step * TrackWidth

\* percentToValue(80) for min 0, max 100, step 1:
\* Math.round(((80 / 100) * (100 - 0) + 0) / 1) * 1 clamped to [0, 100].
ScenarioAValue == Clamp(MathRound(80 * (100 - 0) + 100 * 0, 100 * 1) * 1, 0, 100)

\* C25: a move of a session on the single thumb of an enabled slider makes
\* one call, onChange(percentToValue(getPositionFromEvent(e))), and no move
\* of such a session calls onRangeChange; for min 0, max 100, step 1 and a
\* pointer at 80 % of the track the value is 80.
C25_SingleMoveEmitsValue ==
  /\ (MoveHandled /\ draggingRef = "single") =>
        /\ ~props.disabled => emitted = Call(props.onChange, <<DragValue>>)
        /\ emitted.cb \notin RangeCbs
  /\ ScenarioAValue = 80

\* A move inside the track took the single thumb to another value.
C25_Witness ==
  /\ MoveHandled /\ draggingRef = "single" /\ phase = "mounted"
  /\ props.min = 0 /\ props.step = 1
  /\ 0 < lastOp.x /\ lastOp.x < TrackWidth
  /\ DragValue # props.value
  /\ emitted = [cb |-> props.onChange, arg |-> <<DragValue>>]

\* C26: an end / cancel event delivered during a session leaves the slider
\* Idle with no listener (for as long as the teardown has not released the
\* listeners), and a handle press on an idle, enabled slider, such as the
\* one that end event left, starts a session for the pressed handle with
\* the mouse and touch move / end / cancel listeners registered.
C26_EndThenPressRestarts ==
  [][/\ (lastOp'.kind = "end" /\ SessionActive /\ phase # "unmounted")
          => (draggingRef' = "None" /\ listeners' = {})
     /\ (lastOp'.kind = "press" /\ ~SessionActive /\ ~props.disabled)
          => (draggingRef' = lastOp'.target /\ listeners' = EventTypes)]_vars

\* The press right after the end event of a session started a session for
\* the high handle.
C26_Witness ==
  /\ lastOp.kind = "press" /\ lastOp.key = "afterEnd" /\ lastOp.target = "right"
  /\ draggingRef = "right" /\ listeners = EventTypes

\* C27: in range mode, from a pair with min <= low <= high - step and
\* high <= max, with step <= max - min, a drag move, a track tap and a key
\* press on either thumb emit only pairs with low <= high - step and both
\* values in [min, max], and the caller applying an emitted pair supplies
\* such a pair again; so the pairs stay such along any interleaving of these
\* operations.
C27_MixKeepsSeparationAndRange ==
  [][(type = "range" /\ SeparatedPair) =>
       /\ (lastOp'.kind \in {"move", "tap", "key"} /\ emitted'.cb # "none")
            => /\ props' = props
               /\ emitted'.arg[1] <= emitted'.arg[2] - props.step
               /\ props.min <= emitted'.arg[1]
               /\ emitted'.arg[2] <= props.max
       /\ lastOp'.kind = "apply" => SeparatedPair']_vars

\* ArrowRight on the low thumb one step below the high thumb left the pair
\* as it was.
C27_Witness ==
  /\ type = "range" /\ SeparatedPair /\ Notified
  /\ lastOp.kind = "key" /\ lastOp.target = "left" /\ lastOp.key = "ArrowRight"
  /\ props.rangeValue[1] = props.rangeValue[2] - props.step
  /\ props.rangeValue[2] < props.max
  /\ emitted.arg = props.rangeValue

\* C28: a press during a session registers nothing beyond the five
\* listeners of the first press, and one end / cancel event that reaches the
\* handler, also after repeated presses with no end in between, leaves the
\* slider Idle with no listener on the document.
C28_NoListenerAccumulation ==
  /\ (lastOp.kind = "press" /\ lastOp.key = "again" /\ phase = "mounted")
       => listeners = EventTypes
  /\ (lastOp.kind = "end" /\ lastOp.target = "handler")
       => (draggingRef = "None" /\ listeners = {})

\* One end event after a second press of a running session released
\* everything.
C28_Witness ==
  /\ lastOp = Op("end", "handler", 0, "afterAgain")
  /\ ~props.disabled /\ phase = "mounted"
  /\ draggingRef = "None" /\ listeners = {}

\* The callback of the slider's mode.
ModeCallback == IF type = "single" THEN props.onChange ELSE props.onRangeChange

\* C29: while disabled is true a handle press, a move event, a track tap
\* and a key press call neither onChange nor onRangeChange.
C29_DisabledIsSilent ==
  (props.disabled /\ lastOp.kind \in {"press", "move", "tap", "key"}) => emitted = NoCall

\* A tap on the track of a disabled slider with a callback supplied was
\* ignored.
C29_Witness ==
  /\ props.disabled /\ ModeCallback # "undef"
  /\ lastOp.kind = "tap" /\ lastOp.target = "track"
  /\ emitted = NoCall

\* C30: a move event that arrives while no handle is active (before any
\* press, or after an end / cancel event closed the session) calls neither
\* callback and changes neither the active handle nor the registered
\* listeners.
C30_IdleMoveChangesNothing ==
  [][(lastOp'.kind = "move" /\ ~SessionActive)
     => /\ emitted' = NoCall
        /\ draggingRef' = draggingRef
        /\ listeners' = listeners]_vars

\* A move event on the document of an idle, enabled slider with a callback
\* supplied made no call.
C30_Witness ==
  /\ lastOp.kind = "move" /\ ~SessionActive /\ phase = "mounted"
  /\ ~props.disabled /\ ModeCallback # "undef"
  /\ 0 < lastOp.x /\ lastOp.x < TrackWidth
  /\ emitted = NoCall /\ listeners = {}

====
